---- MODULE Spec2Model ----
(***************************************************************************)
(* Model of the tenpy backend layer: AbstractNoSymmetryBackend             *)
(* (tenpy/linalg/backends/no_symmtery.py) on top of the block provider     *)
(* contract AbstractBlockBackend (tenpy/linalg/backends/abstract_backend). *)
(*                                                                         *)
(* A Block is a dense array: its shape and its entries in row-major order. *)
(* Axis numbers are 0-based as in the source; sequences are 1-based, so    *)
(* the extent of axis n is shape[n + 1].                                   *)
(***************************************************************************)
EXTENDS Integers, Sequences, FiniteSets, TLC

VARIABLES symmetry, default_precision, svd_algorithms, a, b, heap, out, dtypes, call, ret

vars == <<symmetry, default_precision, svd_algorithms, a, b, heap, out, dtypes, call, ret>>

\* the attributes of the backend object
backend == <<symmetry, default_precision, svd_algorithms>>

\* the objects held by reference: payloads and Dtype instances
objects == <<heap, out, dtypes>>

-----------------------------------------------------------------------------
(* Bounds of the model *)

\* largest rank of the payload a
MaxRank == 3
\* largest rank of the second operand b
MaxRankB == 2
\* largest singular value the matrix decomposition may report
MaxSingular == 2
\* largest max_singular_values asked of svd
MaxKeep == 2
\* axis extents the payloads are built from
Extents == {2, 3}
\* number of addresses at which payloads, and Dtype instances, can be held
MaxObjects == 3

RECURSIVE Prod(_)
\* math.prod
Prod(s) == IF s = <<>> THEN 1 ELSE Head(s) * Prod(Tail(s))

-----------------------------------------------------------------------------
(* Symmetries and vector spaces (tenpy.linalg.symmetries, consumed) *)

no_symmetry == "no_symmetry"

Symmetries == {no_symmetry, "u1_symmetry"}

\* VectorSpace: a symmetry and a dimension
VectorSpace(symm, dim) == [symmetry |-> symm, dim |-> dim, product |-> FALSE, spaces |-> <<>>]

\* ProductSpace: the fused form of an ordered list of spaces, which it remembers
ProductSpace(spaces) ==
    [symmetry |-> no_symmetry, dim |-> Prod([i \in 1..Len(spaces) |-> spaces[i].dim]),
     product |-> TRUE, spaces |-> spaces]

Spaces == {VectorSpace(s, d) : s \in Symmetries, d \in Extents}

NonSymmetric == {VectorSpace(no_symmetry, d) : d \in Extents}

\* atol, rtol of increase_symmetry, in units of 1e-8
Tolerances == {1, 1000}

-----------------------------------------------------------------------------
(* Sequences helpers *)

RECURSIVE SeqsUpTo(_, _)
\* all sequences over S of length at most n
SeqsUpTo(S, n) ==
    IF n = 0 THEN {<<>>}
    ELSE LET shorter == SeqsUpTo(S, n - 1)
         IN shorter \cup {Append(q, x) : q \in {p \in shorter : Len(p) = n - 1}, x \in S}

Range(s) == {s[i] : i \in 1..Len(s)}

Distinct(s) == \A i, j \in 1..Len(s) : i # j => s[i] # s[j]

\* lists of pairwise distinct axes of a rank-r block, of length at most n
AxisLists(r, n) == {p \in SeqsUpTo(0..(r - 1), n) : Distinct(p)}

\* the subsequence of s at the 0-based positions listed in idcs
Pick(s, idcs) == [i \in 1..Len(idcs) |-> s[idcs[i] + 1]]

RECURSIVE Ascending(_, _, _)
\* the numbers lo..hi (ascending) that satisfy keep
Ascending(lo, hi, keep) ==
    IF lo > hi THEN <<>>
    ELSE (IF lo \in keep THEN <<lo>> ELSE <<>>) \o Ascending(lo + 1, hi, keep)

-----------------------------------------------------------------------------
(* Blocks: row-major dense arrays *)

Block(shape, data) == [shape |-> shape, data |-> data]

\* no payload at all (distinct from a rank-0 block, which holds one entry)
NoBlock == Block(<<>>, <<>>)

block_shape(x) == x.shape

Rank(x) == Len(x.shape)

RECURSIVE RavelAcc(_, _, _, _)
RavelAcc(idx, shape, i, acc) ==
    IF i > Len(shape) THEN acc
    ELSE RavelAcc(idx, shape, i + 1, acc * shape[i] + idx[i])

\* flat row-major offset (0-based) of the multi-index idx (0-based)
Ravel(idx, shape) == RavelAcc(idx, shape, 1, 0)

\* multi-index (0-based) of the flat row-major offset k (0-based)
Unravel(k, shape) ==
    [i \in 1..Len(shape) |-> (k \div Prod(SubSeq(shape, i + 1, Len(shape)))) % shape[i]]

\* the entry of x at multi-index idx
At(x, idx) == x.data[Ravel(idx, x.shape) + 1]

\* all multi-indices of a shape
Indices(shape) == {Unravel(k, shape) : k \in 0..(Prod(shape) - 1)}

\* a block of the given shape whose entries are pairwise different
Fill(shape) == Block(shape, [k \in 1..Prod(shape) |-> k])

Shapes(r) == SeqsUpTo(Extents, r)

Blocks(r) == {Fill(s) : s \in Shapes(r)}

-----------------------------------------------------------------------------
(* Precision and Dtype (abstract_backend.py) *)

Precisions == {"half", "single", "double", "long_double", "quadruple"}

\* Dtype: the dataclass with the fields precision and is_real
Dtype(precision, is_real) == [precision |-> precision, is_real |-> is_real]

\* no Dtype instance
NoDtype == Dtype("none", FALSE)

as_real(self) == Dtype(self.precision, TRUE)

as_complex(self) == Dtype(self.precision, FALSE)

-----------------------------------------------------------------------------
(* Payloads held by reference: dense arrays of complex entries <<re, im>>, *)
(* each with the dtype its provider stores it in                           *)

Array(shape, data, dtype) == [shape |-> shape, data |-> data, dtype |-> dtype]

\* nothing is held (a free address)
NoArray == Array(<<>>, <<>>, NoDtype)

Refs == 1..MaxObjects

\* the address of the payload the client passes as data
data_ref == 1

\* an array of the given shape; entry k is k + im * k * i
FillArray(shape, dtype, im) ==
    Array(shape, [k \in 1..Prod(shape) |-> <<k, im * k>>], dtype)

\* real arrays, complex arrays, and complex arrays whose imaginary parts are all zero
Arrays ==
    {FillArray(s, Dtype(p, TRUE), 0) : s \in Shapes(1), p \in {"single", "double"}}
        \cup {FillArray(s, Dtype("double", FALSE), im) : s \in Shapes(1), im \in {0, 1}}

\* values an entry can be overwritten with
EntryValues == {<<0, 0>>}

Allocated(h) == {r \in Refs : h[r] # NoArray}

\* a heap that holds one payload, at data_ref
HeapOf(x) == [r \in Refs |-> IF r = data_ref THEN x ELSE NoArray]

-----------------------------------------------------------------------------
(* Outcome of a call: a returned value or a raised exception *)

NoRet ==
    [err |-> "none", kind |-> "none", blk |-> NoBlock, flag |-> FALSE, legs |-> <<>>,
     discarded2 |-> 0, all2 |-> 0, ref |-> 0, obj |-> NoArray, dtype |-> NoDtype]

Return(x) == [NoRet EXCEPT !.kind = "block", !.blk = x]

ReturnBool(v) == [NoRet EXCEPT !.kind = "bool", !.flag = v]

ReturnScalar(v) == [NoRet EXCEPT !.kind = "scalar", !.blk = Block(<<>>, <<v>>)]

\* a tensor: its data and its legs
ReturnTensor(x, legs) == [NoRet EXCEPT !.kind = "tensor", !.blk = x, !.legs = legs]

Raise(e) == [NoRet EXCEPT !.err = e]

\* a reference to a payload or to a Dtype instance
ReturnRef(r) == [NoRet EXCEPT !.kind = "ref", !.ref = r]

ReturnArray(x) == [NoRet EXCEPT !.kind = "array", !.obj = x]

\* a list of vector spaces
ReturnLegs(legs) == [NoRet EXCEPT !.kind = "legs", !.legs = legs]

\* a python complex
ReturnComplex(v) == [NoRet EXCEPT !.kind = "complex", !.obj = Array(<<>>, <<v>>, NoDtype)]

ReturnDtype(d) == [NoRet EXCEPT !.kind = "dtype", !.dtype = d]

\* the call returned normally and its value is None
ReturnNone == [NoRet EXCEPT !.kind = "None"]

NoCall ==
    [op |-> "none", x |-> NoBlock, y |-> NoBlock, legs |-> <<>>, legs2 |-> <<>>,
     leg |-> 0, symm |-> no_symmetry, spaces |-> <<>>, chained |-> FALSE,
     S |-> <<>>, max_singular_values |-> 0, threshold |-> 0, max_err |-> 0,
     ref |-> 0, value |-> <<0, 0>>]

-----------------------------------------------------------------------------
(* Block provider: structural operations on one dense block *)

IsPermutation(perm, r) == Len(perm) = r /\ Range(perm) = 0..(r - 1)

\* result axis i is input axis permutation[i]
block_transpose(x, permutation) ==
    LET r == Rank(x)
        shape == Pick(x.shape, permutation)
        inv == [m \in 1..r |-> CHOOSE i \in 1..r : permutation[i] + 1 = m]
    IN Block(shape,
             [k \in 1..Prod(shape) |->
                 LET j == Unravel(k - 1, shape)
                 IN At(x, [m \in 1..r |-> j[inv[m]]])])

\* the same entries in row-major order under another shape
block_reshape(x, shape) == Block(shape, x.data)

\* the axis order that brings the listed legs together at the place of legs[0]
combine_permutation(r, legs) ==
    Ascending(0, legs[1] - 1, (0..(r - 1)) \ Range(legs))
        \o legs
        \o Ascending(legs[1] + 1, r - 1, (0..(r - 1)) \ Range(legs))

\* where the fused axis ends up: after the unlisted axes that precede legs[0]
combine_position(r, legs) == Len(Ascending(0, legs[1] - 1, (0..(r - 1)) \ Range(legs)))

block_combine_legs(x, legs) ==
    IF legs = <<>> THEN Raise("IndexError")
    ELSE LET r == Rank(x)
             t == block_transpose(x, combine_permutation(r, legs))
             pos == combine_position(r, legs)
             n == Len(legs)
         IN Return(block_reshape(t,
                SubSeq(t.shape, 1, pos) \o <<Prod(SubSeq(t.shape, pos + 1, pos + n))>>
                    \o SubSeq(t.shape, pos + n + 1, r)))

block_split_leg(x, leg, dims) ==
    LET shape == SubSeq(x.shape, 1, leg) \o dims \o SubSeq(x.shape, leg + 2, Rank(x))
    IN IF Prod(shape) # Prod(x.shape) THEN Raise("ValueError")
       ELSE Return(block_reshape(x, shape))

-----------------------------------------------------------------------------
(* Block provider: numeric operations *)

RECURSIVE SumTo(_, _)
\* f[1] + ... + f[n]
SumTo(f, n) == IF n = 0 THEN 0 ELSE f[n] + SumTo(f, n - 1)

\* product of an (n, k) matrix with a (k, m) matrix
matmul(x, y) ==
    LET n == x.shape[1]
        k == x.shape[2]
        m == y.shape[2]
    IN Block(<<n, m>>,
             [e \in 1..(n * m) |->
                 LET i == (e - 1) \div m
                     j == (e - 1) % m
                 IN SumTo([c \in 1..k |-> x.data[i * k + c] * y.data[(c - 1) * m + j + 1]], k)])

\* the axes of a rank-r block that idcs does not list, ascending
Remaining(r, idcs) == Ascending(0, r - 1, (0..(r - 1)) \ Range(idcs))

\* contraction of the axes idcs_a of x with the axes idcs_b of y, pairwise in order:
\* both operands are brought to matrices, multiplied, and the free axes restored
block_tdot(x, y, idcs_a, idcs_b) ==
    IF \/ Len(idcs_a) # Len(idcs_b)
       \/ \E i \in 1..Len(idcs_a) : x.shape[idcs_a[i] + 1] # y.shape[idcs_b[i] + 1]
    THEN Raise("ValueError")
    ELSE LET free_a == Remaining(Rank(x), idcs_a)
             free_b == Remaining(Rank(y), idcs_b)
             shape_a == Pick(x.shape, free_a)
             shape_b == Pick(y.shape, free_b)
             k == Prod(Pick(x.shape, idcs_a))
             xm == block_reshape(block_transpose(x, free_a \o idcs_a), <<Prod(shape_a), k>>)
             ym == block_reshape(block_transpose(y, idcs_b \o free_b), <<k, Prod(shape_b)>>)
         IN Return(block_reshape(matmul(xm, ym), shape_a \o shape_b))

\* no contraction: the axes of x followed by the axes of y
block_outer(x, y) == block_tdot(x, y, <<>>, <<>>)

\* <x|y>: all axes of x against the same axes of y (entries are real: conj is the identity)
block_inner(x, y) ==
    IF x.shape # y.shape THEN Raise("ValueError")
    ELSE ReturnScalar(SumTo([k \in 1..Len(x.data) |-> x.data[k] * y.data[k]], Len(x.data)))

\* partial trace: axis idcs1[k] is paired with axis idcs2[k] and summed over the diagonal
block_trace(x, idcs1, idcs2) ==
    IF \/ Len(idcs1) # Len(idcs2)
       \/ \E i \in 1..Len(idcs1) : x.shape[idcs1[i] + 1] # x.shape[idcs2[i] + 1]
    THEN Raise("ValueError")
    ELSE LET rem == Remaining(Rank(x), idcs1 \o idcs2)
             shape == Pick(x.shape, rem)
             dims == Pick(x.shape, idcs1)
             k == Prod(dims)
             t == block_reshape(block_transpose(x, rem \o idcs1 \o idcs2), <<Prod(shape), k, k>>)
         IN Return(Block(shape,
                [e \in 1..Prod(shape) |->
                    SumTo([c \in 1..k |-> At(t, <<e - 1, c - 1, c - 1>>)], k)]))

\* elementwise complex conjugate; shape, axis order and dtype are kept
block_conj(x) ==
    ReturnArray([x EXCEPT !.data = [k \in 1..Len(x.data) |-> <<x.data[k][1], 0 - x.data[k][2]>>]])

\* the only entry of a block that has one entry
block_item(x) ==
    IF Len(x.data) = 1 THEN ReturnComplex(x.data[1]) ELSE Raise("ValueError")

\* realness is that of the stored dtype: zero imaginary parts do not make a block real
block_is_real(x) == ReturnBool(x.dtype.is_real)

block_dtype(x) == ReturnDtype(x.dtype)

\* deep copy of the payload at r into the free address new
block_copy(h, r, new) == [heap |-> [h EXCEPT ![new] = h[r]], ret |-> ReturnRef(new)]

\* in-place assignment of one entry (0-based flat offset k) of the payload at r
block_setitem(h, r, k, v) == [h EXCEPT ![r].data[k + 1] = v]

-----------------------------------------------------------------------------
(* AbstractNoSymmetryBackend *)

\* legs_are_compatible: the loop over enumerate(legs), from position n on
RECURSIVE legs_loop(_, _, _)
legs_loop(shape, legs, n) ==
    IF n >= Len(legs) THEN ReturnBool(TRUE)
    ELSE LET leg == legs[n + 1]
         IN IF leg.symmetry # no_symmetry THEN ReturnBool(FALSE)
            ELSE IF n >= Len(shape) THEN Raise("IndexError")
            ELSE IF leg.dim # shape[n + 1] THEN ReturnBool(FALSE)
            ELSE legs_loop(shape, legs, n + 1)

legs_are_compatible(data, legs) == legs_loop(block_shape(data), legs, 0)

\* variant: the symmetry is not looked at
reduce_symmetry_unchecked(data, new_symm) == Return(data)

reduce_symmetry(data, new_symm) ==
    IF new_symm = no_symmetry THEN Return(data) ELSE Raise("ValueError")

increase_symmetry(data, new_symm, atol, rtol) ==
    IF new_symm = no_symmetry THEN Raise("UserWarning") ELSE Raise("ValueError")

\* variant: the legs are listed from the last axis to the first
infer_legs_reversed(data) ==
    [i \in 1..Rank(data) |-> VectorSpace(no_symmetry, block_shape(data)[Rank(data) + 1 - i])]

infer_legs(data) ==
    [i \in 1..Rank(data) |-> VectorSpace(no_symmetry, block_shape(data)[i])]

\* variant: the operands are passed in the other order
tdot_swapped(x, y, a_axes, b_axes) == block_tdot(y, x, b_axes, a_axes)

tdot(x, y, a_axes, b_axes) == block_tdot(x, y, a_axes, b_axes)

outer(x, y) == block_outer(x, y)

inner(x, y) == block_inner(x, y)

transpose(x, permutation) == Return(block_transpose(x, permutation))

trace(x, idcs1, idcs2) == block_trace(x, idcs1, idcs2)

\* variant: the legs are fused in ascending order, not in the order given
combine_legs_sorted(x, legs) ==
    block_combine_legs(x, Ascending(0, Rank(x) - 1, Range(legs)))

combine_legs(x, legs) == block_combine_legs(x, legs)

\* variant: the original dimensions are passed in reverse
split_leg_reversed(x, leg, orig_spaces) ==
    block_split_leg(x, leg,
        [i \in 1..Len(orig_spaces) |-> orig_spaces[Len(orig_spaces) + 1 - i].dim])

\* variant: the original spaces are ignored and the leg is left as it is
split_leg_unchecked(x, leg, orig_spaces) ==
    block_split_leg(x, leg, <<x.shape[leg + 1]>>)

split_leg(x, leg, orig_spaces) ==
    block_split_leg(x, leg, [i \in 1..Len(orig_spaces) |-> orig_spaces[i].dim])

\* variant: a block is called real when no entry has an imaginary part
is_real_by_value(data) == ReturnBool(\A k \in 1..Len(data.data) : data.data[k][2] = 0)

is_real(data) == block_is_real(data)

item(data) == block_item(data)

infer_dtype(data) == block_dtype(data)

\* variant: the payload itself is handed back
copy_data_alias(h, r, new) == [heap |-> h, ret |-> ReturnRef(r)]

copy_data(h, r, new) == block_copy(h, r, new)

conj(x) == block_conj(x)

-----------------------------------------------------------------------------
(* AbstractNonabelianBackend (nonabelian.py) *)

\* the body of tdot is the expression `...`: the call falls off its end
nonabelian_tdot(x, y, a_axes, b_axes) == ReturnNone

-----------------------------------------------------------------------------
(* Truncated svd.  The decomposition itself is the block provider's        *)
(* matrix_svd: it reports the singular values S, non-negative and sorted   *)
(* descending.  The backend keeps a prefix of S.                           *)

RECURSIVE DescendingSeqs(_, _)
\* the descending sequences of length n over 0..top
DescendingSeqs(n, top) ==
    IF n = 0 THEN {<<>>}
    ELSE UNION {{<<v>> \o q : q \in DescendingSeqs(n - 1, v)} : v \in 0..top}

\* what matrix_svd may report for a matrix of the given shape
matrix_svd_values(rows, cols) ==
    DescendingSeqs(IF rows < cols THEN rows ELSE cols, MaxSingular)

SumSq(s) == SumTo([i \in 1..Len(s) |-> s[i] * s[i]], Len(s))

RECURSIVE LeadingAtLeast(_, _)
\* how many leading entries of s are at least threshold
LeadingAtLeast(s, threshold) ==
    IF s = <<>> \/ Head(s) < threshold THEN 0
    ELSE 1 + LeadingAtLeast(Tail(s), threshold)

\* variant: the threshold is not applied
truncate_count_only(S, max_singular_values, threshold, max_err) ==
    IF Len(S) < max_singular_values THEN Len(S) ELSE max_singular_values

\* number of singular values kept: at most max_singular_values, none below
\* threshold, as many as these two allow (max_err cannot ask for more)
truncate(S, max_singular_values, threshold, max_err) ==
    LET most == IF Len(S) < max_singular_values THEN Len(S) ELSE max_singular_values
    IN LeadingAtLeast(SubSeq(S, 1, most), threshold)

\* s, trunc_err and new_space of svd; trunc_err = norm(S_discarded) / norm(S_all)
\* is kept as the two squared norms
svd(S, max_singular_values, threshold, max_err) ==
    LET keep == truncate(S, max_singular_values, threshold, max_err)
    IN [NoRet EXCEPT !.kind = "svd",
                     !.blk = Block(<<keep>>, SubSeq(S, 1, keep)),
                     !.legs = <<VectorSpace(no_symmetry, keep)>>,
                     !.discarded2 = SumSq(SubSeq(S, keep + 1, Len(S))),
                     !.all2 = SumSq(S)]

-----------------------------------------------------------------------------
(* Tensor-facing API on top of the backend: a tensor is its data and legs *)

Tensor(data, legs) == [data |-> data, legs |-> legs]

\* the combined legs become one ProductSpace at the place of legs[0]
Tensor_combine_legs(t, legs) ==
    LET r == Len(t.legs)
        res == combine_legs(t.data, legs)
        pos == combine_position(r, legs)
        order == combine_permutation(r, legs)
    IN IF res.err # "none" THEN res
       ELSE ReturnTensor(res.blk,
                Pick(t.legs, SubSeq(order, 1, pos))
                    \o <<ProductSpace(Pick(t.legs, legs))>>
                    \o Pick(t.legs, SubSeq(order, pos + Len(legs) + 1, r)))

\* only a ProductSpace can be split, into the spaces it remembers
Tensor_split_leg(t, leg) ==
    IF ~t.legs[leg + 1].product THEN Raise("ValueError")
    ELSE LET res == split_leg(t.data, leg, t.legs[leg + 1].spaces)
         IN IF res.err # "none" THEN res
            ELSE ReturnTensor(res.blk,
                     SubSeq(t.legs, 1, leg) \o t.legs[leg + 1].spaces
                         \o SubSeq(t.legs, leg + 2, Len(t.legs)))

-----------------------------------------------------------------------------
(* The state machine: a backend, two payloads, and the last call made.      *)
(* A call is made when no result is pending; Collect drops the result.      *)
(* split_leg may also be applied to the block a combine_legs just returned. *)

Idle == call.op = "none"

\* svd_algorithms of a concrete backend class: the first is the default
AlgorithmLists == {<<"gesdd", "gesvd">>, <<"gesvd">>}

\* AbstractNoSymmetryBackend(): __init__ passes no_symmetry on, and sets nothing else;
\* default_precision and svd_algorithms are what the concrete class provides
Constructed(precision, algorithms) ==
    /\ symmetry = no_symmetry
    /\ default_precision = precision
    /\ svd_algorithms = algorithms

\* one real scalar payload is held, no copy of it, and no Dtype instance
FewObjects ==
    /\ heap = HeapOf(FillArray(<<>>, Dtype("double", TRUE), 0))
    /\ out = 0
    /\ dtypes = [r \in Refs |-> NoDtype]

Init ==
    /\ Constructed("double", <<"gesdd", "gesvd">>)
    /\ a \in Blocks(MaxRank)
    /\ b \in Blocks(MaxRankB)
    /\ FewObjects
    /\ call = NoCall
    /\ ret = NoRet

\* one payload only: the second operand is a fixed scalar block
InitA ==
    /\ Constructed("double", <<"gesdd", "gesvd">>)
    /\ a \in Blocks(MaxRank)
    /\ b = Fill(<<>>)
    /\ FewObjects
    /\ call = NoCall
    /\ ret = NoRet

LegsAreCompatible ==
    /\ Idle
    /\ \E legs \in SeqsUpTo(Spaces, MaxRank) :
        /\ call' = [NoCall EXCEPT !.op = "legs_are_compatible", !.x = a, !.spaces = legs]
        /\ ret' = legs_are_compatible(a, legs)
    /\ UNCHANGED <<backend, a, b, objects>>

\* variant: the symmetry asked for is remembered by the backend
ReduceSymmetryStored ==
    /\ Idle
    /\ \E new_symm \in Symmetries :
        /\ call' = [NoCall EXCEPT !.op = "reduce_symmetry", !.x = a, !.symm = new_symm]
        /\ ret' = reduce_symmetry(a, new_symm)
        /\ symmetry' = new_symm
    /\ UNCHANGED <<default_precision, svd_algorithms, a, b, objects>>

ReduceSymmetry ==
    /\ Idle
    /\ \E new_symm \in Symmetries :
        /\ call' = [NoCall EXCEPT !.op = "reduce_symmetry", !.x = a, !.symm = new_symm]
        /\ ret' = reduce_symmetry(a, new_symm)
    /\ UNCHANGED <<backend, a, b, objects>>

IncreaseSymmetry ==
    /\ Idle
    /\ \E new_symm \in Symmetries, atol \in Tolerances, rtol \in Tolerances :
        /\ call' = [NoCall EXCEPT !.op = "increase_symmetry", !.x = a, !.symm = new_symm]
        /\ ret' = increase_symmetry(a, new_symm, atol, rtol)
    /\ UNCHANGED <<backend, a, b, objects>>

\* variant: a is brought into contraction order in place before the shapes are compared
TdotInPlace ==
    /\ Idle
    /\ \E a_axes \in AxisLists(Rank(a), Rank(a)), b_axes \in AxisLists(Rank(b), Rank(b)) :
        /\ Len(a_axes) = Len(b_axes)
        /\ call' = [NoCall EXCEPT !.op = "tdot", !.x = a, !.y = b,
                                  !.legs = a_axes, !.legs2 = b_axes]
        /\ ret' = tdot(a, b, a_axes, b_axes)
        /\ a' = block_transpose(a, Remaining(Rank(a), a_axes) \o a_axes)
    /\ UNCHANGED <<backend, b, objects>>

Tdot ==
    /\ Idle
    /\ \E a_axes \in AxisLists(Rank(a), Rank(a)), b_axes \in AxisLists(Rank(b), Rank(b)) :
        /\ Len(a_axes) = Len(b_axes)
        /\ call' = [NoCall EXCEPT !.op = "tdot", !.x = a, !.y = b,
                                  !.legs = a_axes, !.legs2 = b_axes]
        /\ ret' = tdot(a, b, a_axes, b_axes)
    /\ UNCHANGED <<backend, a, b, objects>>

Outer ==
    /\ Idle
    /\ call' = [NoCall EXCEPT !.op = "outer", !.x = a, !.y = b]
    /\ ret' = outer(a, b)
    /\ UNCHANGED <<backend, a, b, objects>>

Inner ==
    /\ Idle
    /\ call' = [NoCall EXCEPT !.op = "inner", !.x = a, !.y = b]
    /\ ret' = inner(a, b)
    /\ UNCHANGED <<backend, a, b, objects>>

Transpose ==
    /\ Idle
    /\ \E permutation \in AxisLists(Rank(a), Rank(a)) :
        /\ IsPermutation(permutation, Rank(a))
        /\ call' = [NoCall EXCEPT !.op = "transpose", !.x = a, !.legs = permutation]
        /\ ret' = transpose(a, permutation)
    /\ UNCHANGED <<backend, a, b, objects>>

Trace ==
    /\ Idle
    /\ \E idcs1 \in AxisLists(Rank(a), Rank(a)), idcs2 \in AxisLists(Rank(a), Rank(a)) :
        /\ Len(idcs1) = Len(idcs2)
        /\ Distinct(idcs1 \o idcs2)
        /\ call' = [NoCall EXCEPT !.op = "trace", !.x = a, !.legs = idcs1, !.legs2 = idcs2]
        /\ ret' = trace(a, idcs1, idcs2)
    /\ UNCHANGED <<backend, a, b, objects>>

CombineLegs ==
    /\ Idle
    /\ \E legs \in AxisLists(Rank(a), Rank(a)) :
        /\ call' = [NoCall EXCEPT !.op = "combine_legs", !.x = a, !.legs = legs]
        /\ ret' = combine_legs(a, legs)
    /\ UNCHANGED <<backend, a, b, objects>>

\* split_leg on the payload a, or on the block the pending combine_legs returned
SplitLeg ==
    /\ Idle \/ (call.op = "combine_legs" /\ ret.err = "none")
    /\ LET x == IF Idle THEN a ELSE ret.blk
       IN \E leg \in 0..(Rank(x) - 1), orig_spaces \in SeqsUpTo(NonSymmetric, MaxRank) :
            /\ call' = [NoCall EXCEPT !.op = "split_leg", !.x = x, !.leg = leg,
                                      !.spaces = orig_spaces, !.legs = call.legs,
                                      !.chained = ~Idle]
            /\ ret' = split_leg(x, leg, orig_spaces)
    /\ UNCHANGED <<backend, a, b, objects>>

Svd ==
    /\ Idle
    /\ \E cut \in 0..Rank(a), max_singular_values \in 1..MaxKeep,
          threshold \in 0..MaxSingular, max_err \in Tolerances :
        LET idcs1 == Ascending(0, cut - 1, 0..(Rank(a) - 1))
            idcs2 == Ascending(cut, Rank(a) - 1, 0..(Rank(a) - 1))
        IN \E S \in matrix_svd_values(Prod(Pick(a.shape, idcs1)), Prod(Pick(a.shape, idcs2))) :
            /\ call' = [NoCall EXCEPT !.op = "svd", !.x = a, !.legs = idcs1, !.legs2 = idcs2,
                                      !.S = S, !.max_singular_values = max_singular_values,
                                      !.threshold = threshold, !.max_err = max_err]
            /\ ret' = svd(S, max_singular_values, threshold, max_err)
    /\ UNCHANGED <<backend, a, b, objects>>

TensorCombineLegs ==
    /\ Idle
    /\ \E legs \in AxisLists(Rank(a), Rank(a)) :
        /\ call' = [NoCall EXCEPT !.op = "Tensor.combine_legs", !.x = a, !.legs = legs]
        /\ ret' = Tensor_combine_legs(Tensor(a, infer_legs(a)), legs)
    /\ UNCHANGED <<backend, a, b, objects>>

\* split_leg on the tensor of a, or on the tensor the pending combine_legs returned
TensorSplitLeg ==
    /\ Idle \/ (call.op = "Tensor.combine_legs" /\ ret.err = "none")
    /\ LET t == IF Idle THEN Tensor(a, infer_legs(a)) ELSE Tensor(ret.blk, ret.legs)
       IN \E leg \in 0..(Len(t.legs) - 1) :
            /\ call' = [NoCall EXCEPT !.op = "Tensor.split_leg", !.x = t.data, !.leg = leg,
                                      !.spaces = t.legs, !.legs = call.legs,
                                      !.chained = ~Idle]
            /\ ret' = Tensor_split_leg(t, leg)
    /\ UNCHANGED <<backend, a, b, objects>>

\* a payload is held at data_ref; nothing else is held
InitObjects ==
    /\ Constructed("double", <<"gesdd", "gesvd">>)
    /\ a = Fill(<<>>)
    /\ b = Fill(<<>>)
    /\ heap \in {HeapOf(x) : x \in Arrays}
    /\ out = 0
    /\ dtypes = [r \in Refs |-> NoDtype]
    /\ call = NoCall
    /\ ret = NoRet

\* the lowest free address
Fresh(h) == CHOOSE r \in Refs \ Allocated(h) : \A q \in Refs \ Allocated(h) : r <= q

\* out = copy_data(data)
CopyData ==
    /\ Idle
    /\ Allocated(heap) # Refs
    /\ LET r == copy_data(heap, data_ref, Fresh(heap))
       IN /\ heap' = r.heap
          /\ out' = r.ret.ref
          /\ ret' = r.ret
    /\ call' = [NoCall EXCEPT !.op = "copy_data", !.ref = data_ref]
    /\ UNCHANGED <<backend, a, b, dtypes>>

\* the client writes one entry in place, through data or through out
SetItem ==
    /\ Idle
    /\ \E r \in {data_ref, out} \ {0}, v \in EntryValues :
        \E k \in 0..(Len(heap[r].data) - 1) :
            /\ heap' = block_setitem(heap, r, k, v)
            /\ call' = [NoCall EXCEPT !.op = "setitem", !.ref = r, !.leg = k, !.value = v]
    /\ ret' = ReturnNone
    /\ UNCHANGED <<backend, a, b, out, dtypes>>

Conj ==
    /\ Idle
    /\ call' = [NoCall EXCEPT !.op = "conj", !.ref = data_ref]
    /\ ret' = conj(heap[data_ref])
    /\ UNCHANGED <<backend, a, b, objects>>

Item ==
    /\ Idle
    /\ call' = [NoCall EXCEPT !.op = "item", !.ref = data_ref]
    /\ ret' = item(heap[data_ref])
    /\ UNCHANGED <<backend, a, b, objects>>

IsReal ==
    /\ Idle
    /\ call' = [NoCall EXCEPT !.op = "is_real", !.ref = data_ref]
    /\ ret' = is_real(heap[data_ref])
    /\ UNCHANGED <<backend, a, b, objects>>

InferDtype ==
    /\ Idle
    /\ call' = [NoCall EXCEPT !.op = "infer_dtype", !.ref = data_ref]
    /\ ret' = infer_dtype(heap[data_ref])
    /\ UNCHANGED <<backend, a, b, objects>>

\* a backend of any concrete class is constructed; the client holds one of each payload
InitBackend ==
    /\ \E precision \in Precisions \cup {"unset"}, algorithms \in AlgorithmLists :
            Constructed(precision, algorithms)
    /\ a \in Blocks(MaxRankB)
    /\ b = Fill(<<>>)
    /\ heap \in {HeapOf(x) : x \in Arrays}
    /\ out = 0
    /\ dtypes = [r \in Refs |-> NoDtype]
    /\ call = NoCall
    /\ ret = NoRet

\* the client holds one Dtype instance
InitDtype ==
    /\ Constructed("double", <<"gesdd", "gesvd">>)
    /\ a = Fill(<<>>)
    /\ b = Fill(<<>>)
    /\ heap = HeapOf(FillArray(<<>>, Dtype("double", TRUE), 0))
    /\ out = 0
    /\ \E p \in Precisions, r \in BOOLEAN :
            dtypes = [q \in Refs |-> IF q = 1 THEN Dtype(p, r) ELSE NoDtype]
    /\ call = NoCall
    /\ ret = NoRet

\* the Dtype instances that exist
Instances(ds) == {r \in Refs : ds[r] # NoDtype}

\* the lowest address at which no Dtype instance is held
FreshDtype(ds) == CHOOSE r \in Refs \ Instances(ds) : \A q \in Refs \ Instances(ds) : r <= q

\* d.as_real(): a new instance is constructed and returned
AsReal ==
    /\ Idle
    /\ Instances(dtypes) # Refs
    /\ \E self \in Instances(dtypes) :
        /\ dtypes' = [dtypes EXCEPT ![FreshDtype(dtypes)] = as_real(dtypes[self])]
        /\ call' = [NoCall EXCEPT !.op = "as_real", !.ref = self]
        /\ ret' = ReturnRef(FreshDtype(dtypes))
    /\ UNCHANGED <<backend, a, b, heap, out>>

\* d.as_complex(): a new instance is constructed and returned
AsComplex ==
    /\ Idle
    /\ Instances(dtypes) # Refs
    /\ \E self \in Instances(dtypes) :
        /\ dtypes' = [dtypes EXCEPT ![FreshDtype(dtypes)] = as_complex(dtypes[self])]
        /\ call' = [NoCall EXCEPT !.op = "as_complex", !.ref = self]
        /\ ret' = ReturnRef(FreshDtype(dtypes))
    /\ UNCHANGED <<backend, a, b, heap, out>>

\* d.precision = p or d.is_real = r: the dataclass is not frozen, so the
\* assignment is accepted and the instance is changed in place
DtypeSetattr ==
    /\ Idle
    /\ \E self \in Instances(dtypes) :
        /\ \/ \E p \in Precisions : dtypes' = [dtypes EXCEPT ![self].precision = p]
           \/ \E r \in BOOLEAN : dtypes' = [dtypes EXCEPT ![self].is_real = r]
        /\ call' = [NoCall EXCEPT !.op = "setattr", !.ref = self]
    /\ ret' = ReturnNone
    /\ UNCHANGED <<backend, a, b, heap, out>>

InferLegs ==
    /\ Idle
    /\ call' = [NoCall EXCEPT !.op = "infer_legs", !.x = a]
    /\ ret' = ReturnLegs(infer_legs(a))
    /\ UNCHANGED <<backend, a, b, objects>>

\* legs_are_compatible(data, legs) with the legs the pending infer_legs(data) returned
CheckInferredLegs ==
    /\ call.op = "infer_legs"
    /\ ret.err = "none"
    /\ call' = [NoCall EXCEPT !.op = "legs_are_compatible", !.x = a, !.spaces = ret.legs,
                              !.chained = TRUE]
    /\ ret' = legs_are_compatible(a, ret.legs)
    /\ UNCHANGED <<backend, a, b, objects>>

\* two payloads for the contractions and one payload held by reference:
\* either the first two vary, or the third does
InitDelegate ==
    /\ Constructed("double", <<"gesdd", "gesvd">>)
    /\ \/ /\ a \in Blocks(MaxRankB)
          /\ b \in Blocks(MaxRankB)
          /\ heap = HeapOf(FillArray(<<>>, Dtype("double", TRUE), 0))
       \/ /\ a = Fill(<<>>)
          /\ b = Fill(<<>>)
          /\ heap \in {HeapOf(x) : x \in Arrays}
    /\ out = 0
    /\ dtypes = [r \in Refs |-> NoDtype]
    /\ call = NoCall
    /\ ret = NoRet

NonabelianSymmetries == {"su2_symmetry"}

\* a backend of a concrete subclass of AbstractNonabelianBackend, and two payloads
InitNonabelian ==
    /\ symmetry \in NonabelianSymmetries
    /\ default_precision = "double"
    /\ svd_algorithms = <<"gesdd", "gesvd">>
    /\ a \in Blocks(MaxRank)
    /\ b \in Blocks(MaxRankB)
    /\ FewObjects
    /\ call = NoCall
    /\ ret = NoRet

\* tdot called on the nonabelian backend
NonabelianTdot ==
    /\ Idle
    /\ \E a_axes \in AxisLists(Rank(a), Rank(a)), b_axes \in AxisLists(Rank(b), Rank(b)) :
        /\ Len(a_axes) = Len(b_axes)
        /\ call' = [NoCall EXCEPT !.op = "nonabelian.tdot", !.x = a, !.y = b,
                                  !.legs = a_axes, !.legs2 = b_axes]
        /\ ret' = nonabelian_tdot(a, b, a_axes, b_axes)
    /\ UNCHANGED <<backend, a, b, objects>>

\* the caller takes the result (or handles the exception)
Collect ==
    /\ ~Idle
    /\ call' = NoCall
    /\ ret' = NoRet
    /\ UNCHANGED <<backend, a, b, objects>>

Next ==
    \/ LegsAreCompatible
    \/ ReduceSymmetry
    \/ IncreaseSymmetry
    \/ Tdot
    \/ Outer
    \/ Inner
    \/ Transpose
    \/ Trace
    \/ CombineLegs
    \/ SplitLeg
    \/ Svd
    \/ TensorCombineLegs
    \/ TensorSplitLeg
    \/ Collect

Spec == Init /\ [][Next]_vars

\* the calls about symmetry and leg validation, on one payload
NextSymmetry ==
    \/ LegsAreCompatible
    \/ ReduceSymmetry
    \/ IncreaseSymmetry
    \/ Collect

SpecSymmetry == InitA /\ [][NextSymmetry]_vars

\* leg fusion and splitting, on one payload
NextLegs ==
    \/ CombineLegs
    \/ SplitLeg
    \/ TensorCombineLegs
    \/ TensorSplitLeg
    \/ Collect

SpecLegs == InitA /\ [][NextLegs]_vars

\* contractions of two payloads
NextContract ==
    \/ Tdot
    \/ Outer
    \/ Inner
    \/ Trace
    \/ Collect

SpecContract == Init /\ [][NextContract]_vars

\* truncated svd of one payload
NextSvd ==
    \/ Svd
    \/ Collect

SpecSvd == InitA /\ [][NextSvd]_vars

\* the calls that can fail
NextFail ==
    \/ Tdot
    \/ Trace
    \/ Inner
    \/ SplitLeg
    \/ ReduceSymmetry
    \/ IncreaseSymmetry
    \/ Collect

SpecFail == Init /\ [][NextFail]_vars

\* copies of a payload and in-place writes
NextCopy ==
    \/ CopyData
    \/ SetItem
    \/ Collect

SpecCopy == InitObjects /\ [][NextCopy]_vars

\* calls that succeed and calls that fail, on a backend of any configuration
NextBackend ==
    \/ ReduceSymmetry
    \/ IncreaseSymmetry
    \/ Transpose
    \/ Item
    \/ CopyData
    \/ Collect

SpecBackend == InitBackend /\ [][NextBackend]_vars

\* what a client can do with Dtype instances
NextDtype ==
    \/ AsReal
    \/ AsComplex
    \/ DtypeSetattr
    \/ Collect

SpecDtype == InitDtype /\ [][NextDtype]_vars

\* legs inferred from a payload, and legs checked against it
NextInfer ==
    \/ InferLegs
    \/ CheckInferredLegs
    \/ LegsAreCompatible
    \/ Collect

SpecInfer == InitA /\ [][NextInfer]_vars

\* every call the backend passes on to the block provider
NextDelegate ==
    \/ Tdot
    \/ Outer
    \/ Inner
    \/ Transpose
    \/ Trace
    \/ CombineLegs
    \/ SplitLeg
    \/ Conj
    \/ Item
    \/ IsReal
    \/ InferDtype
    \/ CopyData
    \/ Collect

SpecDelegate == InitDelegate /\ [][NextDelegate]_vars

\* contractions asked of a nonabelian backend
NextNonabelian ==
    \/ NonabelianTdot
    \/ Collect

SpecNonabelian == InitNonabelian /\ [][NextNonabelian]_vars

-----------------------------------------------------------------------------
(* Properties *)

Dims(spaces) == [i \in 1..Len(spaces) |-> spaces[i].dim]

\* C1: on a no-symmetry backend, increase_symmetry with new_symm equal to the
\* backend's own (trivial) symmetry returns the data unchanged, and with any
\* other new_symm it fails with a value error.
C1_IncreaseSymmetryContract ==
    call.op = "increase_symmetry" =>
        IF call.symm = symmetry THEN ret = Return(call.x)
        ELSE ret.err = "ValueError"

\* C2: reduce_symmetry returns the data unchanged when new_symm is the trivial
\* symmetry, and for every other new_symm fails with a value error and no result.
C2_ReduceSymmetryContract ==
    call.op = "reduce_symmetry" =>
        IF call.symm = no_symmetry THEN ret = Return(a)
        ELSE ret.err = "ValueError" /\ ret.kind = "none" /\ ret.blk = NoBlock

C2_Witness ==
    /\ call.op = "reduce_symmetry"
    /\ call.symm # no_symmetry
    /\ Rank(a) > 0
    /\ ret.err = "ValueError"

\* C3: legs_are_compatible returns a boolean for every block and every list of
\* legs, shorter or longer than the rank, and the boolean is true exactly when
\* every supplied leg has the trivial symmetry and its dimension equals the
\* extent of the block axis at the same position.
C3_LegsAreCompatibleTotal ==
    call.op = "legs_are_compatible" =>
        /\ ret.err = "none"
        /\ ret.kind = "bool"
        /\ ret.flag = (\A n \in 1..Len(call.spaces) :
                          /\ call.spaces[n].symmetry = no_symmetry
                          /\ n <= Rank(a)
                          /\ call.spaces[n].dim = a.shape[n])

\* the number of unlisted axes that precede legs[0]
FusedPosition(legs) == Cardinality((0..(legs[1] - 1)) \ Range(legs))

\* legs lists adjacent axes in ascending order
IsRun(legs) == \A i \in 1..Len(legs) : legs[i] = legs[1] + i - 1

\* y is x with its axes in the given order: axis i of y is axis order[i] of x
IsTransposed(y, x, order) ==
    /\ y.shape = Pick(x.shape, order)
    /\ \A idx \in Indices(x.shape) : At(y, Pick(idx, order)) = At(x, idx)

\* a split_leg applied to what combine_legs(a, call.legs) returned, with the
\* original extents of the listed axes
SplitsBack(leg) ==
    /\ call.op = "split_leg"
    /\ call.chained
    /\ call.leg = leg
    /\ Dims(call.spaces) = Pick(a.shape, call.legs)

\* C4 as stated: splitting the axis at position legs[0] of combine_legs(a, legs)
\* with the original extents gives back a, for contiguous and non-contiguous legs.
C4_RoundTripIdentity ==
    SplitsBack(call.legs[1]) => ret = Return(a)

\* C4 amended: splitting the fused axis of combine_legs(a, legs) with the original
\* extents gives a with the listed axes moved, in the order given, to the place
\* of legs[0]; this is a itself when legs lists adjacent axes in ascending order.
C4_RoundTripMoved ==
    SplitsBack(FusedPosition(call.legs)) =>
        /\ ret.err = "none"
        /\ ret.kind = "block"
        /\ IsTransposed(ret.blk, a, combine_permutation(Rank(a), call.legs))
        /\ IsRun(call.legs) => ret.blk = a

C4_Witness ==
    /\ SplitsBack(0)
    /\ call.legs = <<0, 2>>
    /\ ret.err = "none"
    /\ ret.blk # a

\* res is x with the listed axes fused into one axis at position p: the unlisted
\* axes keep their order, the fused extent is the product of the listed extents,
\* and the fused index is the row-major flattening of the listed indices
FusedAt(res, x, legs, p) ==
    LET rest == Remaining(Rank(x), legs)
        before == SubSeq(rest, 1, p)
        after == SubSeq(rest, p + 1, Len(rest))
        listed == Pick(x.shape, legs)
    IN /\ p <= Len(rest)
       /\ Rank(res) = Rank(x) - Len(legs) + 1
       /\ res.shape = Pick(x.shape, before) \o <<Prod(listed)>> \o Pick(x.shape, after)
       /\ \A idx \in Indices(x.shape) :
             At(res, Pick(idx, before) \o <<Ravel(Pick(idx, legs), listed)>> \o Pick(idx, after))
                 = At(x, idx)

\* the scenario of the tests: legs [1, 3] of a (2, 4, 7, 5) block
combine_example == combine_legs(Fill(<<2, 4, 7, 5>>), <<1, 3>>)

FirstIsSmallest(legs) == \A i \in 1..Len(legs) : legs[1] <= legs[i]

Scatter(r, axes1, vals1, axes2, vals2) ==
    [m \in 1..r |->
        IF \E p \in 1..Len(axes1) : axes1[p] = m - 1
        THEN vals1[CHOOSE p \in 1..Len(axes1) : axes1[p] = m - 1]
        ELSE vals2[CHOOSE p \in 1..Len(axes2) : axes2[p] = m - 1]]

\* C7: for operands whose paired extents agree, tdot(a, b, idcs_a, idcs_b) has rank
\* rank(a) + rank(b) - 2 * len(idcs_a); its axes are the uncontracted axes of a in
\* their order followed by the uncontracted axes of b in their order, each entry
\* being the sum over the contracted indices; with every axis of both operands
\* contracted the result is rank-0.
C7_TdotAxes ==
    (/\ call.op = "tdot"
     /\ \A i \in 1..Len(call.legs) : a.shape[call.legs[i] + 1] = b.shape[call.legs2[i] + 1]) =>
        LET free_a == Remaining(Rank(a), call.legs)
            free_b == Remaining(Rank(b), call.legs2)
            dims == Pick(a.shape, call.legs)
            res == ret.blk
        IN /\ ret.err = "none"
           /\ Rank(res) = Rank(a) + Rank(b) - 2 * Len(call.legs)
           /\ res.shape = Pick(a.shape, free_a) \o Pick(b.shape, free_b)
           /\ \A i \in Indices(Pick(a.shape, free_a)), j \in Indices(Pick(b.shape, free_b)) :
                 At(res, i \o j) =
                     SumTo([c \in 1..Prod(dims) |->
                               LET k == Unravel(c - 1, dims)
                               IN At(a, Scatter(Rank(a), call.legs, k, free_a, i))
                                    * At(b, Scatter(Rank(b), call.legs2, k, free_b, j))],
                           Prod(dims))
           /\ (Len(call.legs) = Rank(a) /\ Len(call.legs2) = Rank(b)) =>
                 (res.shape = <<>> /\ Len(res.data) = 1)

C7_Witness ==
    /\ call.op = "tdot"
    /\ Rank(a) = 3
    /\ Rank(b) = 2
    /\ call.legs = <<1>>
    /\ call.legs2 = <<0>>
    /\ ret.err = "none"
    /\ Rank(ret.blk) = 3

C10_FailureIsAtomic ==
    [][ret'.err # "none" =>
          (a' = a /\ b' = b /\ ret'.kind = "none" /\ ret'.blk = NoBlock)]_vars

C10_Witness ==
    /\ call.op = "tdot"
    /\ call.x = a
    /\ call.y = b
    /\ Len(call.legs) = 2
    /\ ret.err = "ValueError"

-----------------------------------------------------------------------------
(* C11: once out = copy_data(data) has returned, an in-place write through *)
(* out leaves the payload of data as it was, and an in-place write through *)
(* data leaves the payload of out as it was.                               *)
C11_CopyIsIndependent ==
    [][(out # 0 /\ call'.op = "setitem") =>
            /\ call'.ref = out => heap'[data_ref] = heap[data_ref]
            /\ call'.ref = data_ref => heap'[out] = heap[out]]_vars

\* a copy was made and then both payloads were written in place
C11_Witness ==
    /\ out # 0
    /\ call.op = "setitem"
    /\ call.ref = out
    /\ heap[out].data # heap[data_ref].data
    /\ \E k \in 1..Len(heap[data_ref].data) : heap[data_ref].data[k] \in EntryValues

-----------------------------------------------------------------------------
(* C12: a no-symmetry backend has symmetry no_symmetry once constructed,    *)
(* and no call, whether it returns or raises, changes the backend's         *)
(* symmetry, default_precision or svd_algorithms.                           *)
C12_BackendIsReadOnly ==
    /\ [](symmetry = no_symmetry)
    /\ [][/\ symmetry' = symmetry
          /\ default_precision' = default_precision
          /\ svd_algorithms' = svd_algorithms]_vars

\* a call has failed after another has succeeded, on a backend whose class sets no precision
C12_Witness ==
    /\ call.op = "reduce_symmetry"
    /\ ret.err = "ValueError"
    /\ out # 0
    /\ default_precision = "unset"
    /\ symmetry = no_symmetry

-----------------------------------------------------------------------------
(* C13: Dtype is an immutable value: as_real() and as_complex() leave the   *)
(* receiver as it was and return a Dtype of the same precision with is_real *)
(* TRUE, respectively FALSE, and no step changes the precision or is_real   *)
(* of a Dtype instance that exists.                                         *)
C13_DtypeIsImmutable ==
    [][/\ \A r \in Instances(dtypes) : dtypes'[r] = dtypes[r]
       /\ call'.op = "as_real" =>
            dtypes'[ret'.ref] = Dtype(dtypes[call'.ref].precision, TRUE)
       /\ call'.op = "as_complex" =>
            dtypes'[ret'.ref] = Dtype(dtypes[call'.ref].precision, FALSE)]_vars

-----------------------------------------------------------------------------
(* C14: infer_legs(data) returns one leg per axis of data, in axis order,   *)
(* each of the trivial symmetry and of the dimension of its axis, and       *)
(* legs_are_compatible(data, infer_legs(data)) returns True.                *)
C14_InferredLegsFit ==
    /\ call.op = "infer_legs" =>
            /\ ret.err = "none"
            /\ Len(ret.legs) = Rank(a)
            /\ \A n \in 0..(Rank(a) - 1) :
                    /\ ret.legs[n + 1].symmetry = no_symmetry
                    /\ ret.legs[n + 1].dim = block_shape(a)[n + 1]
    /\ (call.op = "legs_are_compatible" /\ call.chained) => ret = ReturnBool(TRUE)

\* the inferred legs of a block whose axes differ in extent were checked
C14_Witness ==
    /\ call.op = "legs_are_compatible"
    /\ call.chained
    /\ block_shape(a) = <<2, 3, 2>>
    /\ Dims(call.spaces) = <<2, 3, 2>>
    /\ ret.flag

-----------------------------------------------------------------------------
(* C15: tdot, outer, inner, transpose, trace, conj, combine_legs, item,     *)
(* is_real, infer_dtype and copy_data return exactly what the block call of *)
(* the same name returns on the same arguments in the same order, and       *)
(* split_leg(a, leg, orig_spaces) returns block_split_leg(a, leg, dims)     *)
(* with dims the dimensions of orig_spaces in order.                        *)
C15_DelegatesOneToOne ==
    /\ [](/\ call.op = "tdot" => ret = block_tdot(call.x, call.y, call.legs, call.legs2)
          /\ call.op = "outer" => ret = block_outer(call.x, call.y)
          /\ call.op = "inner" => ret = block_inner(call.x, call.y)
          /\ call.op = "transpose" => ret = Return(block_transpose(call.x, call.legs))
          /\ call.op = "trace" => ret = block_trace(call.x, call.legs, call.legs2)
          /\ call.op = "combine_legs" => ret = block_combine_legs(call.x, call.legs)
          /\ call.op = "split_leg" =>
                ret = block_split_leg(call.x, call.leg, Dims(call.spaces))
          /\ call.op = "conj" => ret = block_conj(heap[call.ref])
          /\ call.op = "item" => ret = block_item(heap[call.ref])
          /\ call.op = "is_real" => ret = block_is_real(heap[call.ref])
          /\ call.op = "infer_dtype" => ret = block_dtype(heap[call.ref]))
    /\ [][call'.op = "copy_data" =>
            [heap |-> heap', ret |-> ret'] = block_copy(heap, call'.ref, Fresh(heap))]_vars

\* a conjugate was taken of a block with imaginary parts, after is_real was
\* asked of a complex block, a copy made and a contraction of two axes done
C15_Witness ==
    /\ call.op = "conj"
    /\ heap[data_ref].dtype.is_real = FALSE
    /\ \E k \in 1..Len(ret.obj.data) : ret.obj.data[k][2] < 0
    /\ out # 0

-----------------------------------------------------------------------------
(* C16: tdot on a nonabelian backend either returns a contraction result or *)
(* fails with an explicit unsupported-operation error; it never returns     *)
(* normally without a result.                                               *)
C16_TdotIsNotSilent ==
    call.op = "nonabelian.tdot" =>
        \/ ret.err = "none" /\ ret.kind = "block"
        \/ ret.err = "NotImplementedError"

====
